---- MODULE Spec2Model ----
(***************************************************************************)
(* Model of octatool.py: chain assembly (run_chain_mode) and the 832-byte  *)
(* slice-metadata encoder (generate_ot_file).                              *)
(*                                                                         *)
(* Audio is handled by an external codec (pydub).  A clip is modelled by   *)
(* the number of frames it holds, its frame rate, its channel count, and a *)
(* tag src naming the input file its audio came from (0 for generated      *)
(* silence); its duration in milliseconds, len(clip), is derived from the  *)
(* frames as the codec does.  Python's None is written 0 for the two       *)
(* optional integers slices and max_slice_length, which the program only   *)
(* ever tests for truthiness ("if slices:", "if max_slice_length").        *)
(***************************************************************************)
EXTENDS Integers, Sequences, FiniteSets, TLC

VARIABLES pc, args, processed_samples, padded_samples, final_chain,
          ot_call, buffer, disk

vars == <<pc, args, processed_samples, padded_samples, final_chain,
          ot_call, buffer, disk>>

None == 0

(***************************************************************************)
(* Bounds of the model.                                                    *)
(***************************************************************************)
MaxFiles == 3
MaxPoints == 2
LongBase == 63

(***************************************************************************)
(* Program constants.                                                      *)
(***************************************************************************)
BufferSize == 832
MaxSlots == 64
FrameRate == 44100
tempo == 120
quantize == 16

(***************************************************************************)
(* Paths are sequences of characters.                                      *)
(***************************************************************************)
DotWav == <<".", "w", "a", "v">>
DotOt == <<".", "o", "t">>

RECURSIVE StrReplace(_, _, _)
StrReplace(s, old, new) ==
    IF Len(s) < Len(old) THEN s
    ELSE IF SubSeq(s, 1, Len(old)) = old
         THEN new \o StrReplace(SubSeq(s, Len(old) + 1, Len(s)), old, new)
         ELSE <<Head(s)>> \o StrReplace(Tail(s), old, new)

OtPath(output_file) == StrReplace(output_file, DotWav, DotOt)

(***************************************************************************)
(* struct.pack_into for the three formats used, on a buffer that is a      *)
(* function from byte offsets 0..BufferSize-1 to bytes.                    *)
(***************************************************************************)
Pow256(k) == CASE k = 0 -> 1 [] k = 1 -> 256 [] k = 2 -> 65536 [] k = 3 -> 16777216

ByteOf(v, k) == IF v >= 0 THEN (v \div Pow256(k)) % 256
                ELSE 255 - ((((-v) - 1) \div Pow256(k)) % 256)

pack_into_I(buf, off, v) ==
    [buf EXCEPT ![off] = ByteOf(v, 0), ![off + 1] = ByteOf(v, 1),
                ![off + 2] = ByteOf(v, 2), ![off + 3] = ByteOf(v, 3)]

pack_into_i(buf, off, v) == pack_into_I(buf, off, v)

pack_into_H(buf, off, v) ==
    [buf EXCEPT ![off] = ByteOf(v, 0), ![off + 1] = ByteOf(v, 1)]

(* struct.error: an unsigned format refuses a negative value.  (Values of  *)
(* 2^32 and more are beyond the integers of the model.)                    *)
FitsUnsigned(v) == v >= 0

(***************************************************************************)
(* int(ms * sample_rate / 1000): the quotient truncated toward zero.       *)
(* Computed in two parts to stay within 32-bit integers.                   *)
(***************************************************************************)
MulDiv1000(a, rate) == (a \div 1000) * rate + ((a % 1000) * rate) \div 1000

(* A variant that rounds to the nearest sample instead of truncating.      *)
MsToSamplesRounded(ms, sample_rate) ==
    IF ms >= 0 THEN (ms * sample_rate + 500) \div 1000
    ELSE -(((-ms) * sample_rate + 500) \div 1000)

MsToSamples(ms, sample_rate) ==
    IF ms >= 0 THEN MulDiv1000(ms, sample_rate)
    ELSE -MulDiv1000(-ms, sample_rate)

(* [int(ms * sample_rate / 1000) for ms in slice_points], as a sequence.   *)
slice_samples_of(slice_points, sample_rate) ==
    LET n == Len(slice_points)
    IN SubSeq([i \in 1..n |-> MsToSamples(slice_points[i], sample_rate)], 1, n)

(***************************************************************************)
(* bars_value = int(audio_length_samples / sample_rate / 2.0 * 100).       *)
(* In double arithmetic the product x * 100 falls just below the integer k *)
(* for some exact quotients x = k / 100; those k are listed here for       *)
(* k <= 401 (audio of up to 8 seconds), which covers every audio length   *)
(* of the model.                                                           *)
(***************************************************************************)
BarsFloatShort == {29, 57, 58, 113, 114, 115, 116, 201, 203, 205, 207,
                   226, 228, 230, 232, 251, 253, 255}

BarsValue(audio_length_samples, sample_rate) ==
    IF audio_length_samples > 0
    THEN LET k == (audio_length_samples * 50) \div sample_rate
             exact == (audio_length_samples * 50) % sample_rate = 0
         IN IF exact /\ k \in BarsFloatShort THEN k - 1 ELSE k
    ELSE 400

GainValue(gain) ==
    LET g == 48 + ((gain - 12) * 4)
    IN IF g < 0 THEN 0 ELSE IF g > 255 THEN 255 ELSE g

(***************************************************************************)
(* generate_ot_file: the buffer, written field by field as the code does.  *)
(***************************************************************************)
form_header == <<70, 79, 82, 77, 0, 0, 0, 0, 68, 80, 83, 49,
                 83, 77, 80, 65, 0, 0, 0, 0, 0, 2, 0>>

BufferWithHeader ==
    [i \in 0..(BufferSize - 1) |->
        IF i < Len(form_header) THEN form_header[i + 1] ELSE 0]

BufferWithFields(audio_length_samples, sample_rate, gain) ==
    LET bars_value == BarsValue(audio_length_samples, sample_rate)
        b1 == pack_into_I(BufferWithHeader, 23, tempo * 6 * 4)
        b2 == pack_into_I(b1, 27, bars_value)
        b3 == pack_into_I(b2, 31, bars_value)
        b4 == pack_into_I(b3, 35, 0)
        b5 == pack_into_I(b4, 39, 0)
        b6 == pack_into_H(b5, 43, GainValue(gain))
        b7 == [b6 EXCEPT ![45] = IF quantize > 255 THEN 255
                                 ELSE IF quantize < 0 THEN 0 ELSE quantize]
        b8 == pack_into_I(b7, 46, 0)
        b9 == pack_into_I(b8, 50, audio_length_samples)
    IN pack_into_I(b9, 54, 0)

SliceStart(slice_samples, i) == slice_samples[i + 1]

(* A variant that ends every slice at the end of the audio.                *)
SliceEndAtAudioEnd(slice_samples, audio_length_samples, i) ==
    audio_length_samples

SliceEnd(slice_samples, audio_length_samples, i) ==
    IF i < Len(slice_samples) - 1 THEN slice_samples[i + 2]
    ELSE audio_length_samples

(* The 12 bytes packed for slot i: start, end, loop point (-1).            *)
SliceEntry(slice_samples, audio_length_samples, i) ==
    LET used == i < Len(slice_samples)
        start_pos == IF used THEN SliceStart(slice_samples, i) ELSE 0
        end_pos == IF used
                   THEN SliceEnd(slice_samples, audio_length_samples, i)
                   ELSE 0
    IN <<start_pos, end_pos, -1>>

(* for i in range(64): three pack_into at offset, offset + 4, offset + 8,  *)
(* offset advancing by 12 from first_offset.  The writes of the loop do    *)
(* not overlap, so each byte of the table region is given by its slot.     *)
SliceLoop(buf, slice_samples, audio_length_samples, first_offset) ==
    [o \in DOMAIN buf |->
        IF o >= first_offset /\ o < first_offset + 12 * MaxSlots
        THEN LET i == (o - first_offset) \div 12
                 field == ((o - first_offset) % 12) \div 4
                 k == (o - first_offset) % 4
             IN ByteOf(SliceEntry(slice_samples, audio_length_samples, i)[field + 1], k)
        ELSE buf[o]]

SliceCount(slice_samples) == Len(slice_samples)

(* sum(buf[lo:hi]); the range is halved to keep the evaluation shallow.    *)
RECURSIVE SumBytes(_, _, _)
SumBytes(buf, lo, hi) ==
    IF lo >= hi THEN 0
    ELSE IF hi = lo + 1 THEN buf[lo]
    ELSE LET mid == (lo + hi) \div 2
         IN SumBytes(buf, lo, mid) + SumBytes(buf, mid, hi)

(* A variant that sums the whole buffer, header included.                  *)
ChecksumWholeBuffer(buf) == SumBytes(buf, 0, BufferSize)

Checksum(buf) == SumBytes(buf, 16, BufferSize)

OtBuffer(slice_points, sample_rate, audio_length_samples, gain) ==
    LET slice_samples == slice_samples_of(slice_points, sample_rate)
        fields == BufferWithFields(audio_length_samples, sample_rate, gain)
        table == SliceLoop(fields, slice_samples, audio_length_samples, 58)
        counted == pack_into_I(table, 826, SliceCount(slice_samples))
    IN pack_into_H(counted, 830, Checksum(counted) % 65536)

(* The values handed to an unsigned pack_into before the file is opened.   *)
OtRaises(slice_points, sample_rate, audio_length_samples) ==
    \/ ~FitsUnsigned(audio_length_samples)
    \/ \E i \in 1..Len(slice_points) :
          /\ i <= MaxSlots + 1
          /\ ~FitsUnsigned(MsToSamples(slice_points[i], sample_rate))

(***************************************************************************)
(* The disk: a set of <<path, kind>> with at most one kind per path.       *)
(***************************************************************************)
WriteFile(d, path, kind) == {e \in d : e[1] # path} \cup {<<path, kind>>}

EmptyBuffer == [i \in 0..(BufferSize - 1) |-> 0]
NoClip == [frames |-> 0, frame_rate |-> FrameRate, channels |-> 1, src |-> 0]
NoCall == [slice_points |-> <<>>, output_file |-> <<>>, sample_rate |-> 0,
           audio_length_samples |-> 0, gain |-> 0]
NoArgs == [files |-> <<>>, output_file |-> <<>>, mono |-> FALSE,
           slices |-> None, max_slice_length |-> None, no_padding |-> FALSE,
           ot_gain |-> 12]

(***************************************************************************)
(* generate_ot_file as steps of the program.  The buffer is a local of the *)
(* function: it reaches the state only when the file is written.  A       *)
(* pack_into of a negative value raises before the file is opened          *)
(* (GenerateOtStructError); open() may fail (GenerateOtIOError); the write *)
(* may fail after open() has created or truncated the file                 *)
(* (GenerateOtWriteError).                                                 *)
(***************************************************************************)
GenerateOt ==
    /\ pc = "call_ot"
    /\ ~OtRaises(ot_call.slice_points, ot_call.sample_rate,
                 ot_call.audio_length_samples)
    /\ buffer' = OtBuffer(ot_call.slice_points, ot_call.sample_rate,
                          ot_call.audio_length_samples, ot_call.gain)
    /\ disk' = WriteFile(disk, OtPath(ot_call.output_file), "ot")
    /\ pc' = "done"
    /\ UNCHANGED <<args, processed_samples, padded_samples, final_chain, ot_call>>

GenerateOtStructError ==
    /\ pc = "call_ot"
    /\ OtRaises(ot_call.slice_points, ot_call.sample_rate,
                ot_call.audio_length_samples)
    /\ pc' = "raised"
    /\ UNCHANGED <<args, processed_samples, padded_samples, final_chain,
                   ot_call, buffer, disk>>

GenerateOtIOError ==
    /\ pc = "call_ot"
    /\ ~OtRaises(ot_call.slice_points, ot_call.sample_rate,
                 ot_call.audio_length_samples)
    /\ pc' = "raised"
    /\ UNCHANGED <<args, processed_samples, padded_samples, final_chain,
                   ot_call, buffer, disk>>

GenerateOtWriteError ==
    /\ pc = "call_ot"
    /\ ~OtRaises(ot_call.slice_points, ot_call.sample_rate,
                 ot_call.audio_length_samples)
    /\ disk' = WriteFile(disk, OtPath(ot_call.output_file), "empty")
    /\ pc' = "raised"
    /\ UNCHANGED <<args, processed_samples, padded_samples, final_chain,
                   ot_call, buffer>>

(***************************************************************************)
(* Inputs of a direct call of generate_ot_file.                            *)
(***************************************************************************)
OutWav == <<"o", "u", "t", ".", "w", "a", "v">>

MsValues == {-7, 0, 7, 15, 500}
SampleRates == {44100, 48000}
AudioLengths == {0, 1000, 51156, 88200}
Gains == {-10, 0, 12, 70}
LongCounts == {LongBase, LongBase + 1, LongBase + 2}
LongSteps == {8, 15}

SeqsUpTo(S, n) == UNION {[1..k -> S] : k \in 0..n}

UniformPoints(n, step) == [i \in 1..n |-> (i - 1) * step]

PointLists ==
    SeqsUpTo(MsValues, MaxPoints)
        \cup {UniformPoints(n, step) : n \in LongCounts, step \in LongSteps}

InitOt ==
    /\ pc = "call_ot"
    /\ args = NoArgs
    /\ processed_samples = <<>>
    /\ padded_samples = <<>>
    /\ final_chain = NoClip
    /\ ot_call \in [slice_points : PointLists, output_file : {OutWav},
                    sample_rate : SampleRates,
                    audio_length_samples : AudioLengths, gain : Gains]
    /\ buffer = EmptyBuffer
    /\ disk = {}

NextOt ==
    \/ GenerateOt
    \/ GenerateOtStructError
    \/ GenerateOtIOError
    \/ GenerateOtWriteError

SpecOt == InitOt /\ [][NextOt]_vars

(***************************************************************************)
(* The codec (pydub.AudioSegment) as far as run_chain_mode uses it.        *)
(***************************************************************************)
SilentFrameRate == 11025

(* len(clip) = round(1000 * frames / frame_rate), ties to the even integer *)
LenMs(frames, frame_rate) ==
    LET q == (1000 * frames) \div frame_rate
        r == (1000 * frames) % frame_rate
    IN IF 2 * r < frame_rate THEN q
       ELSE IF 2 * r > frame_rate THEN q + 1
       ELSE IF q % 2 = 0 THEN q ELSE q + 1

Ms(sample) == LenMs(sample.frames, sample.frame_rate)

(* frame_count(ms) = int(ms * frame_rate / 1000)                           *)
FrameCountMs(ms, frame_rate) == MulDiv1000(ms, frame_rate)

(* AudioSegment.silent(duration): one channel at 11025 Hz, no source file. *)
(* (int(11025 * (duration / 1000.0)) is the exact quotient rounded down    *)
(* for every duration below 1400 ms.)                                      *)
Silent(duration) ==
    [frames |-> FrameCountMs(duration, SilentFrameRate),
     frame_rate |-> SilentFrameRate, channels |-> 1, src |-> 0]

(* audioop.ratecv to a whole multiple of the rate: n frames become         *)
(* (n - 1) * factor + 1 frames.                                            *)
Ratecv(frames, from_rate, to_rate) ==
    IF frames = 0 THEN 0 ELSE (frames - 1) * (to_rate \div from_rate) + 1

set_frame_rate(sample, frame_rate) ==
    IF sample.frame_rate = frame_rate THEN sample
    ELSE [sample EXCEPT !.frames = Ratecv(sample.frames, sample.frame_rate,
                                          frame_rate),
                        !.frame_rate = frame_rate]

(* seg1 + seg2: both are brought to the larger channel count and frame     *)
(* rate, then their frames are joined.                                     *)
append(seg1, seg2) ==
    LET frame_rate == IF seg1.frame_rate > seg2.frame_rate
                      THEN seg1.frame_rate ELSE seg2.frame_rate
        channels == IF seg1.channels > seg2.channels
                    THEN seg1.channels ELSE seg2.channels
    IN [frames |-> set_frame_rate(seg1, frame_rate).frames
                       + set_frame_rate(seg2, frame_rate).frames,
        frame_rate |-> frame_rate, channels |-> channels, src |-> seg1.src]

(* sample[:ms]: the frames before frame_count(min(ms, len(sample))).       *)
SliceTo(sample, ms) ==
    LET end == IF ms < Ms(sample) THEN ms ELSE Ms(sample)
    IN [sample EXCEPT !.frames = FrameCountMs(end, sample.frame_rate)]

(***************************************************************************)
(* run_chain_mode.  A file of the (sorted) input list is a record: ok says *)
(* whether the codec can load it, frames and channels are the frame count  *)
(* (at 44100 Hz) and channel count of the clip process_sample has after    *)
(* its rate conversion, trimming, fades and normalisation, before the mono *)
(* conversion (which keeps the frame count).                               *)
(***************************************************************************)
LimitFiles(audio_files, slices) ==
    IF slices # None
    THEN IF Len(audio_files) > slices THEN SubSeq(audio_files, 1, slices)
         ELSE audio_files
    ELSE IF Len(audio_files) > MaxSlots THEN SubSeq(audio_files, 1, MaxSlots)
         ELSE audio_files

(* process_sample returns None for a file that cannot be loaded; the       *)
(* caller's "if sample:" also drops a clip whose len() is 0.               *)
process_sample(file, mono, i) ==
    [ok |-> file.ok, frames |-> file.frames, frame_rate |-> FrameRate,
     channels |-> IF mono THEN 1 ELSE file.channels, src |-> i]

Truthy(sample) == sample.ok /\ Ms(sample) > 0

(* The loop over audio_files: the truthy results, in order.                *)
ProcessLoop(audio_files, mono) ==
    LET n == Len(audio_files)
        results == SubSeq([i \in 1..n |-> process_sample(audio_files[i], mono, i)],
                          1, n)
        kept == SelectSeq(results, Truthy)
    IN SubSeq([i \in 1..Len(kept) |->
                  [frames |-> kept[i].frames, frame_rate |-> kept[i].frame_rate,
                   channels |-> kept[i].channels, src |-> kept[i].src]],
              1, Len(kept))

ProcessedSamples(audio_files, slices, mono) ==
    ProcessLoop(LimitFiles(audio_files, slices), mono)

(* max(sample_lengths)                                                     *)
MaxMs(samples) ==
    CHOOSE m \in {Ms(samples[i]) : i \in 1..Len(samples)} :
        \A i \in 1..Len(samples) : Ms(samples[i]) <= m

SliceLenMs(processed, max_slice_length) ==
    LET longest_sample_ms == MaxMs(processed)
    IN IF max_slice_length # None /\ max_slice_length < longest_sample_ms
       THEN max_slice_length
       ELSE IF max_slice_length # None THEN max_slice_length
       ELSE longest_sample_ms

(* sample[:slice_len_ms], then sample + AudioSegment.silent(silence_needed) *)
PadSample(sample, slice_len_ms) ==
    LET truncated == IF Ms(sample) > slice_len_ms
                     THEN SliceTo(sample, slice_len_ms) ELSE sample
        silence_needed == slice_len_ms - Ms(truncated)
    IN IF silence_needed > 0
       THEN append(truncated, Silent(silence_needed))
       ELSE truncated

SilentSlices(processed, slices, slice_len_ms) ==
    IF slices # None /\ Len(processed) < slices
    THEN LET capped == IF slices > MaxSlots THEN MaxSlots ELSE slices
             num_slices_to_add == capped - Len(processed)
         IN SubSeq([k \in 1..num_slices_to_add |-> Silent(slice_len_ms)],
                   1, num_slices_to_add)
    ELSE <<>>

PaddedSamples(processed, slices, max_slice_length, no_padding) ==
    IF no_padding THEN processed
    ELSE LET slice_len_ms == SliceLenMs(processed, max_slice_length)
             n == Len(processed)
         IN SubSeq([i \in 1..n |-> PadSample(processed[i], slice_len_ms)], 1, n)
                \o SilentSlices(processed, slices, slice_len_ms)

(* The total of len(sample) over samples[lo..hi]; the range is halved to   *)
(* keep the evaluation shallow.                                            *)
RECURSIVE SumMsRange(_, _, _)
SumMsRange(samples, lo, hi) ==
    IF lo > hi THEN 0
    ELSE IF lo = hi THEN Ms(samples[lo])
    ELSE LET mid == (lo + hi) \div 2
         IN SumMsRange(samples, lo, mid) + SumMsRange(samples, mid + 1, hi)

(* The frames of samples[lo..hi], each brought to frame_rate.              *)
RECURSIVE SumFramesRange(_, _, _, _)
SumFramesRange(samples, frame_rate, lo, hi) ==
    IF lo > hi THEN 0
    ELSE IF lo = hi THEN set_frame_rate(samples[lo], frame_rate).frames
    ELSE LET mid == (lo + hi) \div 2
         IN SumFramesRange(samples, frame_rate, lo, mid)
                + SumFramesRange(samples, frame_rate, mid + 1, hi)

MaxChannels(samples) ==
    CHOOSE c \in {samples[i].channels : i \in 1..Len(samples)} :
        \A i \in 1..Len(samples) : samples[i].channels <= c

(* sum(padded_samples): the clips are appended one by one.  The first clip *)
(* comes from a file and has the chain's frame rate, so every later clip   *)
(* is brought to that rate when it is appended; the channel count is the   *)
(* largest.                                                                *)
FinalChain(padded) ==
    [frames |-> SumFramesRange(padded, padded[1].frame_rate, 1, Len(padded)),
     frame_rate |-> padded[1].frame_rate,
     channels |-> MaxChannels(padded), src |-> 0]

(* slice_points: each slice starts where the preceding ones end, in the    *)
(* milliseconds len() reports.                                             *)
SlicePoints(padded) ==
    LET n == Len(padded)
    IN SubSeq([i \in 1..n |-> SumMsRange(padded, 1, i - 1)], 1, n)

(* len(final_chain.get_array_of_samples()): one value per frame and channel *)
TotalSamples(chain) == chain.frames * chain.channels

OtCall(a, padded, chain) ==
    [slice_points |-> SlicePoints(padded),
     output_file |-> OtPath(a.output_file),
     sample_rate |-> chain.frame_rate,
     audio_length_samples |-> TotalSamples(chain),
     gain |-> a.ot_gain]

ChainNoFiles ==
    /\ pc = "start"
    /\ args.files = <<>>
    /\ pc' = "returned"
    /\ UNCHANGED <<args, processed_samples, padded_samples, final_chain,
                   ot_call, buffer, disk>>

ChainNoValid ==
    /\ pc = "start"
    /\ args.files # <<>>
    /\ ProcessedSamples(args.files, args.slices, args.mono) = <<>>
    /\ pc' = "returned"
    /\ UNCHANGED <<args, processed_samples, padded_samples, final_chain,
                   ot_call, buffer, disk>>

(* Everything up to the call of generate_ot_file; the export succeeds.     *)
ChainExport ==
    /\ pc = "start"
    /\ args.files # <<>>
    /\ LET processed == ProcessedSamples(args.files, args.slices, args.mono)
           padded == PaddedSamples(processed, args.slices,
                                   args.max_slice_length, args.no_padding)
       IN /\ processed # <<>>
          /\ processed_samples' = processed
          /\ padded_samples' = padded
          /\ final_chain' = FinalChain(padded)
          /\ disk' = WriteFile(disk, args.output_file, "audio")
          /\ ot_call' = OtCall(args, padded, FinalChain(padded))
    /\ pc' = "call_ot"
    /\ UNCHANGED <<args, buffer>>

(* final_chain.export raises before the output file is opened.             *)
ChainExportIOError ==
    /\ pc = "start"
    /\ args.files # <<>>
    /\ LET processed == ProcessedSamples(args.files, args.slices, args.mono)
           padded == PaddedSamples(processed, args.slices,
                                   args.max_slice_length, args.no_padding)
       IN /\ processed # <<>>
          /\ processed_samples' = processed
          /\ padded_samples' = padded
          /\ final_chain' = FinalChain(padded)
    /\ pc' = "raised"
    /\ UNCHANGED <<args, ot_call, buffer, disk>>

(* final_chain.export raises after the output file was opened for writing. *)
ChainExportWriteError ==
    /\ pc = "start"
    /\ args.files # <<>>
    /\ LET processed == ProcessedSamples(args.files, args.slices, args.mono)
           padded == PaddedSamples(processed, args.slices,
                                   args.max_slice_length, args.no_padding)
       IN /\ processed # <<>>
          /\ processed_samples' = processed
          /\ padded_samples' = padded
          /\ final_chain' = FinalChain(padded)
    /\ disk' = WriteFile(disk, args.output_file, "empty")
    /\ pc' = "raised"
    /\ UNCHANGED <<args, ot_call, buffer>>

(***************************************************************************)
(* Inputs of run_chain_mode.  Files of 10, 111 and 352 frames have         *)
(* len() 0, 3 and 8 ms; 132, 221 and 353 frames have 3, 5 and 8 ms.        *)
(***************************************************************************)
Bad == [ok |-> FALSE, frames |-> 0, channels |-> 1]
FileKinds == {Bad,
              [ok |-> TRUE, frames |-> 10, channels |-> 1],
              [ok |-> TRUE, frames |-> 111, channels |-> 1],
              [ok |-> TRUE, frames |-> 352, channels |-> 2]}

(* A long directory: clips of 132, 221 and 353 frames in turn, the first   *)
(* file unreadable when first_bad.                                         *)
LongFiles(n, first_bad) ==
    [i \in 1..n |->
        IF first_bad /\ i = 1 THEN Bad
        ELSE [ok |-> TRUE,
              frames |-> (CASE i % 3 = 0 -> 132 [] i % 3 = 1 -> 221 [] OTHER -> 353),
              channels |-> IF i % 2 = 0 THEN 2 ELSE 1]]

LongFileCounts == {LongBase, LongBase + 1, LongBase + 2, LongBase + 3}

FileLists ==
    SeqsUpTo(FileKinds, MaxFiles)
        \cup {LongFiles(n, b) : n \in LongFileCounts, b \in BOOLEAN}

SliceTargets == {None, 2, 4, 64}
MaxSliceLengths == {None, 4, 10}

OutputFiles ==
    {OutWav,
     <<"o", "u", "t", ".", "W", "A", "V">>,
     <<"o", "u", "t", ".", "a", "i", "f">>,
     <<"o", "u", "t">>,
     <<"a", ".", "w", "a", "v", "s", "/", "b", ".", "w", "a", "v">>}

PathFiles == <<[ok |-> TRUE, frames |-> 221, channels |-> 1],
               [ok |-> TRUE, frames |-> 353, channels |-> 1]>>

ChainInputs ==
    [files : FileLists, output_file : {OutWav}, mono : BOOLEAN,
     slices : SliceTargets, max_slice_length : MaxSliceLengths,
     no_padding : BOOLEAN, ot_gain : {12}]
    \cup
    [files : {PathFiles}, output_file : OutputFiles, mono : {FALSE},
     slices : {None, 4}, max_slice_length : {None}, no_padding : BOOLEAN,
     ot_gain : Gains]

Init ==
    /\ pc = "start"
    /\ args \in ChainInputs
    /\ processed_samples = <<>>
    /\ padded_samples = <<>>
    /\ final_chain = NoClip
    /\ ot_call = NoCall
    /\ buffer = EmptyBuffer
    /\ disk = {}

Next ==
    \/ ChainNoFiles
    \/ ChainNoValid
    \/ ChainExport
    \/ ChainExportIOError
    \/ ChainExportWriteError
    \/ GenerateOt
    \/ GenerateOtIOError
    \/ GenerateOtWriteError

Spec == Init /\ [][Next]_vars

(***************************************************************************)
(* Reading the written buffer back.                                        *)
(***************************************************************************)
U16At(buf, off) == buf[off] + 256 * buf[off + 1]

U32At(buf, off) ==
    buf[off] + 256 * buf[off + 1] + 65536 * buf[off + 2] + 16777216 * buf[off + 3]

I32At(buf, off) ==
    IF buf[off + 3] >= 128
    THEN -((255 - buf[off]) + 256 * (255 - buf[off + 1])
           + 65536 * (255 - buf[off + 2]) + 16777216 * (255 - buf[off + 3])) - 1
    ELSE U32At(buf, off)

EncStart(i) == U32At(buffer, 58 + 12 * i)
EncEnd(i) == U32At(buffer, 58 + 12 * i + 4)
EncLoop(i) == I32At(buffer, 58 + 12 * i + 8)
EncCount == U32At(buffer, 826)
EncChecksum == U16At(buffer, 830)
EncTrimEnd == U32At(buffer, 50)

Min(a, b) == IF a < b THEN a ELSE b
Range(f) == {f[i] : i \in DOMAIN f}
Planned == pc \in {"call_ot", "done"}
NumSlices == Len(padded_samples)
StartMs(i) == SumMsRange(padded_samples, 1, i)
HasKind(kind) == \E e \in disk : e[2] = kind

(* C1: in a chain of N <= 64 slices built with padding enabled, the slice  *)
(* count field equals N, slice 0 starts at sample 0, every encoded start   *)
(* is the sample position of the running sum of the preceding slice        *)
(* lengths, and the encoded end of slice i is the encoded start of slice   *)
(* i + 1.                                                                  *)
C1_Contiguous ==
    (pc = "done" /\ ~args.no_padding /\ NumSlices >= 1 /\ NumSlices <= MaxSlots)
        => /\ EncCount = NumSlices
           /\ EncStart(0) = 0
           /\ \A i \in 0..(NumSlices - 1) :
                 EncStart(i) = MsToSamples(StartMs(i), ot_call.sample_rate)
           /\ \A i \in 0..(NumSlices - 2) :
                 /\ EncEnd(i) = EncStart(i + 1)
                 /\ EncStart(i) < EncStart(i + 1)

C1_Witness ==
    /\ pc = "done" /\ ~args.no_padding
    /\ NumSlices = 4 /\ Len(processed_samples) = 3
    /\ \E i \in 1..3 : Ms(padded_samples[i]) # Ms(processed_samples[i])
    /\ EncStart(3) > EncStart(2) /\ EncEnd(2) = EncStart(3)

(* C2: the 16-bit value stored at 0x33E is the sum of the bytes at 0x10 up *)
(* to but excluding 0x33E, modulo 0x10000.                                 *)
C2_Checksum ==
    pc = "done" => EncChecksum = SumBytes(buffer, 16, 830) % 65536

C2_Witness ==
    /\ pc = "done"
    /\ Len(ot_call.slice_points) = 2
    /\ ot_call.audio_length_samples = 88200
    /\ EncCount = 2
    /\ EncChecksum > 0

(* C3: the slice count field is min(64, number of slice points), and the   *)
(* table holds the first 64 slice points.                                  *)
C3_CountCapped ==
    pc = "done"
        => /\ EncCount = Min(MaxSlots, Len(ot_call.slice_points))
           /\ \A i \in 0..(Min(MaxSlots, Len(ot_call.slice_points)) - 1) :
                 EncStart(i) = MsToSamples(ot_call.slice_points[i + 1],
                                           ot_call.sample_rate)

(* C4: in every run with padding enabled in which max_slice_length is     *)
(* given and smaller than the longest prepared clip, every slice of the    *)
(* chain has length exactly max_slice_length.                              *)
C4_Truncation ==
    (Planned /\ ~args.no_padding /\ args.max_slice_length # None
             /\ args.max_slice_length < MaxMs(processed_samples))
        => \A i \in 1..NumSlices : Ms(padded_samples[i]) = args.max_slice_length

(* The padding law's conclusion for a target count and slice length.       *)
PaddedTo(target, slice_len_ms) ==
    LET n == Len(processed_samples)
    IN /\ NumSlices = target
       /\ EncCount = target
       /\ Ms(final_chain) = target * slice_len_ms
       /\ \A i \in 1..Min(n, NumSlices) :
             padded_samples[i].src = processed_samples[i].src
       /\ \A i \in 1..(n - 1) :
             processed_samples[i].src < processed_samples[i + 1].src
       /\ \A i \in (n + 1)..NumSlices :
             /\ padded_samples[i].src = 0
             /\ Ms(padded_samples[i]) = slice_len_ms
             /\ EncLoop(i - 1) = -1

(* C5: in every completed run with padding enabled and a target slice      *)
(* count (at most 64) greater than the number N of real clips, the output  *)
(* has exactly that many slices, the chain is target * slice length long,  *)
(* the real clips come first in input order, and the trailing slices are   *)
(* silent slices of the slice length with loop point -1.                   *)
C5_Padding ==
    (pc = "done" /\ ~args.no_padding /\ args.slices # None
                 /\ args.slices <= MaxSlots
                 /\ args.slices > Len(processed_samples))
        => PaddedTo(args.slices,
                    SliceLenMs(processed_samples, args.max_slice_length))

(* The slice points that reach the table.                                  *)
Encoded == 0..(Min(MaxSlots, Len(ot_call.slice_points)) - 1)

(* C6 as stated: every encoded start is the integer nearest to             *)
(* startMs * sampleRate / 1000.                                            *)
C6_Rounded ==
    pc = "done"
        => \A i \in Encoded :
              LET exact == ot_call.slice_points[i + 1] * ot_call.sample_rate
                  d == 1000 * EncStart(i) - exact
              IN 2 * (IF d < 0 THEN -d ELSE d) <= 1000

(* C6 amended: every encoded start is startMs * sampleRate / 1000 rounded  *)
(* down (the integer part of the quotient).                                *)
C6_Floored ==
    pc = "done"
        => \A i \in Encoded :
              LET exact == ot_call.slice_points[i + 1] * ot_call.sample_rate
              IN /\ 1000 * EncStart(i) <= exact
                 /\ exact < 1000 * (EncStart(i) + 1)

C6_Witness ==
    /\ pc = "done"
    /\ ot_call.sample_rate = 44100
    /\ \E i \in Encoded :
          ot_call.slice_points[i + 1] = 7 /\ EncStart(i) = 308

(* C7: nothing is on disk before the metadata buffer is built, and a run   *)
(* that fails never leaves the audio file without its metadata file or     *)
(* the metadata file without the audio file.                               *)
C7_NoPartialOutput ==
    /\ disk # {} => pc = "done"
    /\ pc = "raised" => (HasKind("audio") <=> HasKind("ot"))

(* os.path.splitext: the extension starts at the last dot of the last path *)
(* component (a leading dot of the component does not count).              *)
ReplaceExt(path, ext) ==
    LET slash == {0} \cup {i \in 1..Len(path) : path[i] = "/"}
        last_slash == CHOOSE i \in slash : \A j \in slash : j <= i
        dots == {i \in (last_slash + 2)..Len(path) : path[i] = "."}
        last_dot == CHOOSE i \in dots : \A j \in dots : j <= i
    IN IF dots = {} THEN path \o ext
       ELSE SubSeq(path, 1, last_dot - 1) \o ext

(* C8: the metadata file is written to the audio path with its extension   *)
(* replaced, a path different from the audio path, so the exported audio   *)
(* is still on disk afterwards.                                            *)
C8_MetadataPath ==
    pc = "done"
        => /\ OtPath(ot_call.output_file) = ReplaceExt(args.output_file, DotOt)
           /\ OtPath(ot_call.output_file) # args.output_file
           /\ <<args.output_file, "audio">> \in disk
           /\ <<OtPath(ot_call.output_file), "ot">> \in disk

(* C9: with limit L (the target slice count if given, else 64), whenever   *)
(* more than L input files can be prepared, the real slices of the chain   *)
(* are the first L prepared clips in input order; a file that cannot be    *)
(* prepared does not use up a place.                                       *)
Preparable == {i \in 1..Len(args.files) :
                  Truthy(process_sample(args.files[i], args.mono, i))}

C9_LimitOnPrepared ==
    LET L == IF args.slices # None THEN args.slices ELSE MaxSlots
        first == {g \in Preparable :
                     Cardinality({h \in Preparable : h < g}) < L}
        real == {i \in 1..NumSlices : padded_samples[i].src # 0}
    IN (Planned /\ Cardinality(Preparable) > L)
          => /\ {padded_samples[i].src : i \in real} = first
             /\ \A i, j \in real :
                   i < j => padded_samples[i].src < padded_samples[j].src

(* C10: the audio length handed to generate_ot_file, and written as trim   *)
(* end, is the chain's length in sample frames, whatever the channel       *)
(* count.                                                                  *)
C10_LengthInFrames ==
    /\ Planned => ot_call.audio_length_samples = final_chain.frames
    /\ pc = "done" => EncTrimEnd = final_chain.frames

====
